---- MODULE Spec2Model ----
(***************************************************************************)
(* Model of kitti_data_reader_nodes/point_cloud_reader_publisher_node.cpp: *)
(* the constructor of PointCloudReaderPublisherNode (path checks, count    *)
(* check, the loading loop, the first timer) and the self re-arming timer  *)
(* callback of updateTimerAndPublish.                                      *)
(*                                                                         *)
(* Indices are 0-based as in the C++ code; a TLA+ sequence s is read at    *)
(* code index i as s[i + 1].                                               *)
(***************************************************************************)
EXTENDS Integers, Sequences, FiniteSets, TLC

\* ---------------------------------------------------------------- bounds
\* Largest number of timestamps, and of data files, in an input.
MaxFiles == 3
\* Largest number of timer firings followed in one run.
MaxFirings == 7

\* ------------------------------------------------------------- constants
\* 100'000'000ns, the sleep at the boundary.
BOUNDARY_SLEEP_NS == 100000000
\* std::size_t buffer_size = 1'000'000U (floats read from one file at most).
BUFFER_SIZE == 1000000

\* ---------------------------------------------------------------- inputs
\* A data file is the number of complete float32 values it holds, or
\* Unreadable when the ifstream is not good().
Unreadable == -1
FileContents == {Unreadable, 0, 3, 8}
\* Capture timestamps in nanoseconds, as returned by readTimestamps.
TimestampValues == {1000, 1500, 5000}
\* What an out-of-bounds read of timestamp_cache_ may return.
GarbageTimestamps == {-1, 2000}
\* What an out-of-bounds read of point_cloud_cache_ hands to publish().
GarbageFrame == [src |-> -1, width |-> 0]
\* An indeterminate current_index_ before line 150 assigns it.
IndeterminateIndex == {0, 5}
NoTimer == 0

SeqsUpTo(S, n) == UNION {[1..m -> S] : m \in 0..n}

VARIABLES
    paths_exist,          \* the three std::filesystem::exists checks all pass
    in_timestamps,        \* contents of timestamps_start.txt
    in_files,             \* the *.bin files, in ascending name order
    pc,                   \* position of the program
    error,                \* message class of the exception thrown, or "none"
    timestamp_cache_,     \* std::vector<std::int64_t>
    data_files,           \* const auto data_files (constructor local)
    i,                    \* loop variable of the loading loop
    decoded,              \* number of calls of loadPointCloudDataFromBin
    point_cloud_cache_,   \* std::vector<PointCloud2>
    current_index_,       \* std::uint32_t
    timer_,               \* rclcpp::TimerBase::SharedPtr (id of the timer owned)
    timers,               \* the wall timers that are alive
    next_timer,           \* id of the next timer create_wall_timer makes
    waits,                \* intervals passed to create_wall_timer, in order
    delivered,            \* messages handed to cloud_publisher_->publish, in order
    reads,                \* <<vector, index, reader>> of each operator[] read made for scheduling
    stamp_ts,             \* a capture timestamp handed to the header stamp conversion
    stamps                \* the header stamps computed from stamp_ts

vars == <<paths_exist, in_timestamps, in_files, pc, error, timestamp_cache_,
          data_files, i, decoded, point_cloud_cache_, current_index_, timer_,
          timers, next_timer, waits, delivered, reads, stamp_ts, stamps>>

inputs == <<paths_exist, in_timestamps, in_files>>

\* Input and output of the header stamp conversion taken on its own.
conversion == <<stamp_ts, stamps>>

\* The state of the node.
node == <<paths_exist, in_timestamps, in_files, pc, error, timestamp_cache_,
          data_files, i, decoded, point_cloud_cache_, current_index_, timer_,
          timers, next_timer, waits, delivered, reads>>

\* --------------------------------------------------------- pure functions

Min(a, b) == IF a < b THEN a ELSE b

\* loadPointCloudDataFromBin: the number of points returned for a file.
\* The loop `for (i = 0; i < number_of_floats; i += 4)` pushes one point per
\* iteration.
loadPointCloudDataFromBin(file) ==
    IF file = Unreadable
    THEN 0
    ELSE LET number_of_floats == Min(file, BUFFER_SIZE)
         IN  (number_of_floats + 3) \div 4

\* Variant: an empty decode is cached like any other.
IsSkipped_never(points) == FALSE

\* point_cloud_data.empty()
IsSkipped(points) == points = 0

\* Variant: only too few data files are rejected.
CountMismatch_fewer(nfiles, ntimestamps) == nfiles < ntimestamps

\* data_files.size() != timestamp_cache_.size()
CountMismatch(nfiles, ntimestamps) == nfiles # ntimestamps

\* The PointCloud2 message built from source i with the given points.
MakeMessage(source, points) == [src |-> source, width |-> points]

\* Variant: the wraparound test is missing.
Wraparound_never(index, size) == index

\* Variant: the wraparound test is one position late.
Wraparound_late(index, size) == IF index = size + 1 THEN 0 ELSE index

\* if (current_index_ == point_cloud_cache_.size()) current_index_ = 0U;
Wraparound(index, size) == IF index = size THEN 0 ELSE index

\* Variant: the index is advanced twice.
Advance_twice(index) == index + 2

\* ++current_index_ on a std::uint32_t.  The index never leaves
\* 0 .. MaxFirings + 5 here, far below the 2^32 at which it would wrap.
Advance(index) == index + 1

\* Variant: the boundary test is off by one.
UsesTimestamps_offbyone(index, ntimestamps) == index # ntimestamps

\* current_index_ + 1 != timestamp_cache_.size()
UsesTimestamps(index, ntimestamps) == index + 1 # ntimestamps

\* timestamp_cache_[k]: the element, or garbage when k is out of bounds.
TimestampAt(cache, k) ==
    IF k < Len(cache) THEN {cache[k + 1]} ELSE GarbageTimestamps

\* point_cloud_cache_[k]: the element, or garbage when k is out of bounds.
MessageAt(cache, k) ==
    IF k < Len(cache) THEN {cache[k + 1]} ELSE {GarbageFrame}

\* Variant: publish takes the message by move and leaves an empty one.
AfterPublish_moved(cache, k) ==
    IF k < Len(cache)
    THEN [cache EXCEPT ![k + 1] = [@ EXCEPT !.width = 0]]
    ELSE cache

\* cloud_publisher_->publish(point_cloud_cache_[k]) takes the message by
\* const reference: the cache after the call.
AfterPublish(cache, k) == cache

\* Variant: the first timer is armed with no delay.
FirstInterval_zero(t1, t0) == 0

\* timestamp_cache_[1] - timestamp_cache_[0], the interval of the first timer.
FirstInterval(t1, t0) == t1 - t0

\* sleep_duration_nanosec of the callback, given the two timestamps read.
SleepDuration(index, ntimestamps, next_ts, this_ts) ==
    IF UsesTimestamps(index, ntimestamps)
    THEN next_ts - this_ts
    ELSE BOUNDARY_SLEEP_NS

\* Variant: the previous timer is kept alive next to the new one.
ReplaceTimer_keep(alive, owned, new_timer) == alive \cup {new_timer}

\* timer_ = create_wall_timer(interval, ...): the timers alive afterwards.
\* timer_ is the only owner of a timer, so assigning it destroys the old one.
ReplaceTimer(alive, owned, new_timer) ==
    {t \in alive : t.id # owned} \cup {new_timer}

\* ------------------------------------------ 64-bit and double arithmetic
\* Timestamps are std::int64_t nanoseconds and the stamp is computed in
\* double.  A natural number is held as its digits in base 2^15, lowest
\* first, without leading zero digits; a double is mant * 2^exp with mant
\* a natural of at most 53 bits.

Base == 2^15

RECURSIVE Norm(_)
Norm(x) ==
    IF x # <<>> /\ x[Len(x)] = 0 THEN Norm(SubSeq(x, 1, Len(x) - 1)) ELSE x

RECURSIVE FromInt(_)
FromInt(n) == IF n = 0 THEN <<>> ELSE <<n % Base>> \o FromInt(n \div Base)

Digit(x, k) == IF k <= Len(x) THEN x[k] ELSE 0

RECURSIVE AddFrom(_, _, _, _)
AddFrom(x, y, k, carry) ==
    IF k > Len(x) /\ k > Len(y)
    THEN IF carry = 0 THEN <<>> ELSE <<carry>>
    ELSE LET t == Digit(x, k) + Digit(y, k) + carry
         IN  <<t % Base>> \o AddFrom(x, y, k + 1, t \div Base)

Add(x, y) == Norm(AddFrom(x, y, 1, 0))

\* x - y for x >= y
RECURSIVE SubFrom(_, _, _, _)
SubFrom(x, y, k, borrow) ==
    IF k > Len(x)
    THEN <<>>
    ELSE LET t == Digit(x, k) - Digit(y, k) - borrow
         IN  IF t < 0
             THEN <<t + Base>> \o SubFrom(x, y, k + 1, 1)
             ELSE <<t>> \o SubFrom(x, y, k + 1, 0)

Sub(x, y) == Norm(SubFrom(x, y, 1, 0))

RECURSIVE LessFrom(_, _, _)
LessFrom(x, y, k) ==
    IF k = 0 THEN FALSE
    ELSE IF x[k] # y[k] THEN x[k] < y[k]
    ELSE LessFrom(x, y, k - 1)

Less(x, y) ==
    IF Len(x) # Len(y) THEN Len(x) < Len(y) ELSE LessFrom(x, y, Len(x))

RECURSIVE MulDigitFrom(_, _, _, _)
MulDigitFrom(x, d, k, carry) ==
    IF k > Len(x)
    THEN IF carry = 0 THEN <<>> ELSE <<carry>>
    ELSE LET t == x[k] * d + carry
         IN  <<t % Base>> \o MulDigitFrom(x, d, k + 1, t \div Base)

RECURSIVE Mul(_, _)
Mul(x, y) ==
    IF y = <<>> \/ x = <<>>
    THEN <<>>
    ELSE Add(Norm(MulDigitFrom(x, Head(y), 1, 0)),
             Norm(<<0>> \o Mul(x, Tail(y))))

IsOdd(x) == x # <<>> /\ x[1] % 2 = 1

\* x shifted right by one bit
Half(x) ==
    Norm([k \in 1..Len(x) |->
            (x[k] \div 2) + (IF Digit(x, k + 1) % 2 = 1 THEN Base \div 2 ELSE 0)])

\* (the shifted value is compared with itself so that it is computed
\* before the recursive call, not kept as a pending computation)
RECURSIVE ShiftRight(_, _)
ShiftRight(x, n) ==
    IF n = 0 THEN x
    ELSE LET h == Half(x)
         IN  IF h = h THEN ShiftRight(h, n - 1) ELSE x

RECURSIVE ShiftLeft(_, _)
ShiftLeft(x, n) ==
    IF n = 0 THEN x
    ELSE LET d == Add(x, x)
         IN  IF d = d THEN ShiftLeft(d, n - 1) ELSE x

RECURSIVE BitsOfDigit(_)
BitsOfDigit(d) == IF d = 0 THEN 0 ELSE 1 + BitsOfDigit(d \div 2)

BitLen(x) == IF x = <<>> THEN 0 ELSE 15 * (Len(x) - 1) + BitsOfDigit(x[Len(x)])

\* x shifted right by n bits and rounded to nearest, ties to even: guard is
\* the last bit shifted out, sticky tells whether an earlier one was set.
RECURSIVE RoundShift(_, _, _, _)
RoundShift(x, n, guard, sticky) ==
    IF n = 0
    THEN IF guard /\ (sticky \/ IsOdd(x)) THEN Add(x, <<1>>) ELSE x
    ELSE LET h == Half(x)
             g == IsOdd(x)
             s == sticky \/ guard
         IN  IF h = h /\ g = g /\ s = s THEN RoundShift(h, n - 1, g, s) ELSE x

\* Width of the significand of a double.
DOUBLE_BITS == 53

\* static_cast<double>(x), and the rounding of every double operation.
ToDouble(x) ==
    LET e == IF BitLen(x) > DOUBLE_BITS THEN BitLen(x) - DOUBLE_BITS ELSE 0
    IN  [mant |-> RoundShift(x, e, FALSE, FALSE), exp |-> e]

\* a * b in double
MulDouble(a, b) ==
    LET p == ToDouble(Mul(a.mant, b.mant))
    IN  [mant |-> p.mant, exp |-> p.exp + a.exp + b.exp]

\* static_cast to an integer type of a non-negative double in its range
TruncToInt(d) ==
    IF d.exp >= 0 THEN ShiftLeft(d.mant, d.exp) ELSE ShiftRight(d.mant, -d.exp)

\* The double literal 1e-9 = 0x1.12e0be826d695p-30 = 4835703278458517 * 2^-82.
DOUBLE_1E_9 == [mant |-> <<22165, 20557, 14383, 137>>, exp |-> -82]

\* The double literal 1e9.
DOUBLE_1E9 == [mant |-> FromInt(1000000000), exp |-> 0]

\* static_cast<std::uint32_t>(x - y) for std::int64_t x, y >= 0
DiffAsUint32(x, y) ==
    LET low(v) == Norm(<<Digit(v, 1), Digit(v, 2), Digit(v, 3) % 4>>)
    IN  IF ~Less(x, y)
        THEN low(Sub(x, y))
        ELSE LET r == low(Sub(y, x))
             IN  IF r = <<>> THEN <<>> ELSE Sub(<<0, 0, 4>>, r)

\* header.stamp.sec, lines 117-118
StampSeconds(ts) == TruncToInt(MulDouble(ToDouble(ts), DOUBLE_1E_9))

\* header.stamp.nanosec, lines 119-121
StampNanoseconds(ts, sec) ==
    DiffAsUint32(ts, TruncToInt(MulDouble(ToDouble(sec), DOUBLE_1E9)))

\* header.stamp of the message of a source with capture timestamp ts
HeaderStamp(ts) ==
    LET sec == StampSeconds(ts)
    IN  [sec |-> sec, nanosec |-> StampNanoseconds(ts, sec)]

\* The header stamp of a cached message: the loop stamps it with
\* timestamp_cache_[i], i being the index of its source.
StampOf(message) == HeaderStamp(FromInt(timestamp_cache_[message.src + 1]))

\* Whole seconds and nanoseconds of the timestamps the conversion is tried on.
StampInputSeconds ==
    {0, 1, 4, 9007199, 1317000000, 1317055033, 2000000000, 2147483646}
StampInputNanoseconds ==
    {0, 1, 500000000, 999999000, 999999744, 999999900, 999999998, 999999999}

\* ------------------------------------------------------------------ Init

Init ==
    /\ paths_exist \in BOOLEAN
    /\ in_timestamps \in SeqsUpTo(TimestampValues, MaxFiles)
    /\ in_files \in SeqsUpTo(FileContents, MaxFiles)
    /\ pc = "ctor_start"
    /\ error = "none"
    /\ timestamp_cache_ = <<>>
    /\ data_files = <<>>
    /\ i = 0
    /\ decoded = 0
    /\ point_cloud_cache_ = <<>>
    /\ current_index_ \in IndeterminateIndex
    /\ timer_ = NoTimer
    /\ timers = {}
    /\ next_timer = 1
    /\ waits = <<>>
    /\ delivered = <<>>
    /\ reads = {}
    /\ stamp_ts = <<>>
    /\ stamps = <<>>

\* --------------------------------------------------------------- actions

\* Constructor, lines 57-89: path checks, read both lists, count check.
ReadAndCheck ==
    /\ pc = "ctor_start"
    /\ IF ~paths_exist
       THEN /\ pc' = "failed"
            /\ error' = "PathNotFound"
            /\ UNCHANGED <<timestamp_cache_, data_files>>
       ELSE /\ timestamp_cache_' = in_timestamps
            /\ data_files' = in_files
            /\ IF CountMismatch(Len(in_files), Len(in_timestamps))
               THEN pc' = "failed" /\ error' = "CountMismatch"
               ELSE pc' = "ctor_load" /\ error' = error
    /\ UNCHANGED <<inputs, conversion, i, decoded, point_cloud_cache_, current_index_,
                   timer_, timers, next_timer, waits, delivered, reads>>

\* Constructor, lines 93-147: one iteration of the loading loop.
LoadOne ==
    /\ pc = "ctor_load"
    /\ i < Len(timestamp_cache_)
    /\ LET points == loadPointCloudDataFromBin(data_files[i + 1])
       IN  /\ decoded' = decoded + 1
           /\ point_cloud_cache_' =
                  IF IsSkipped(points)
                  THEN point_cloud_cache_
                  ELSE Append(point_cloud_cache_, MakeMessage(i, points))
    /\ i' = i + 1
    /\ UNCHANGED <<inputs, conversion, pc, error, timestamp_cache_, data_files,
                   current_index_, timer_, timers, next_timer, waits,
                   delivered, reads>>

\* updateTimerAndPublish(interval), lines 182-185 and 216: a new wall timer
\* replaces the one timer_ owns.
updateTimerAndPublish(interval) ==
    /\ timers' = ReplaceTimer(timers, timer_,
                              [id |-> next_timer, interval |-> interval])
    /\ timer_' = next_timer
    /\ next_timer' = next_timer + 1
    /\ waits' = Append(waits, interval)

\* Constructor, lines 149-176: the loop is over; reset the index and arm the
\* first timer with timestamp_cache_[1] - timestamp_cache_[0].  With fewer
\* than two timestamps the reads are out of bounds: the process may abort,
\* or go on with whatever the reads returned.
ArmFirst ==
    /\ pc = "ctor_load"
    /\ i = Len(timestamp_cache_)
    /\ current_index_' = 0
    /\ reads' = reads \cup {<<"timestamp_cache_", 1, "constructor">>,
                          <<"timestamp_cache_", 0, "constructor">>}
    /\ \/ /\ Len(timestamp_cache_) < 2
          /\ pc' = "crashed"
          /\ UNCHANGED <<timer_, timers, next_timer, waits>>
       \/ /\ \E t1 \in TimestampAt(timestamp_cache_, 1),
                t0 \in TimestampAt(timestamp_cache_, 0) :
                  updateTimerAndPublish(FirstInterval(t1, t0))
          /\ pc' = "spinning"
    /\ UNCHANGED <<inputs, conversion, error, timestamp_cache_, data_files, i, decoded,
                   point_cloud_cache_, delivered>>

\* The timer callback, lines 185-215, run by the single-threaded executor
\* of rclcpp::spin for a timer that is alive.
TimerCallback ==
    /\ pc = "spinning"
    /\ Len(delivered) < MaxFirings
    /\ \E t \in timers :
       LET index    == Wraparound(current_index_, Len(point_cloud_cache_))
           ntimes   == Len(timestamp_cache_)
           uses     == UsesTimestamps(index, ntimes)
           pub_oob  == index >= Len(point_cloud_cache_)
           ts_oob   == uses /\ index + 1 >= ntimes
           ts_reads == IF uses
                       THEN {<<"timestamp_cache_", index + 1, "callback">>,
                             <<"timestamp_cache_", index, "callback">>}
                       ELSE {}
       IN  \/ \* operator[] out of bounds in publish: the process aborts
              /\ pub_oob
              /\ pc' = "crashed"
              /\ point_cloud_cache_' = point_cloud_cache_
              /\ reads' = reads \cup {<<"point_cloud_cache_", index, "callback">>}
              /\ current_index_' = index
              /\ UNCHANGED <<timer_, timers, next_timer, waits, delivered>>
           \/ \* operator[] out of bounds in the subtraction: the process
              \* aborts after the publish
              /\ ts_oob
              /\ pc' = "crashed"
              /\ point_cloud_cache_' = AfterPublish(point_cloud_cache_, index)
              /\ reads' = reads \cup {<<"point_cloud_cache_", index, "callback">>} \cup ts_reads
              /\ current_index_' = index
              /\ \E m \in MessageAt(point_cloud_cache_, index) :
                    delivered' = Append(delivered, m)
              /\ UNCHANGED <<timer_, timers, next_timer, waits>>
           \/ \* the callback runs to its end
              /\ pc' = pc
              /\ point_cloud_cache_' = AfterPublish(point_cloud_cache_, index)
              /\ reads' = reads \cup {<<"point_cloud_cache_", index, "callback">>} \cup ts_reads
              /\ \E m \in MessageAt(point_cloud_cache_, index) :
                    delivered' = Append(delivered, m)
              /\ \E next_ts \in TimestampAt(timestamp_cache_, index + 1),
                    this_ts \in TimestampAt(timestamp_cache_, index) :
                    updateTimerAndPublish(
                        SleepDuration(index, ntimes, next_ts, this_ts))
              /\ current_index_' = Advance(index)
    /\ UNCHANGED <<inputs, conversion, error, timestamp_cache_, data_files, i, decoded>>

Next ==
    \/ ReadAndCheck
    \/ LoadOne
    \/ ArmFirst
    \/ TimerCallback

Spec == Init /\ [][Next]_vars

\* ------------------------------------------- the stamp conversion alone

StampInit ==
    /\ stamp_ts \in {Add(Mul(FromInt(sec), FromInt(1000000000)), FromInt(nsec)) :
                        sec \in StampInputSeconds, nsec \in StampInputNanoseconds}
    /\ stamps = <<>>
    /\ paths_exist = TRUE
    /\ in_timestamps = <<>>
    /\ in_files = <<>>
    /\ pc = "stamping"
    /\ error = "none"
    /\ timestamp_cache_ = <<>>
    /\ data_files = <<>>
    /\ i = 0
    /\ decoded = 0
    /\ point_cloud_cache_ = <<>>
    /\ current_index_ = 0
    /\ timer_ = NoTimer
    /\ timers = {}
    /\ next_timer = 1
    /\ waits = <<>>
    /\ delivered = <<>>
    /\ reads = {}

\* Lines 117-121 applied to one timestamp.
SetTimestamp ==
    /\ pc = "stamping"
    /\ stamps = <<>>
    /\ stamps' = <<HeaderStamp(stamp_ts)>>
    /\ UNCHANGED <<node, stamp_ts>>

StampNext == SetTimestamp

StampSpec == StampInit /\ [][StampNext]_vars

\* ------------------------------------------------------------ properties

NumFrames == Len(point_cloud_cache_)

\* The constructor has returned and rclcpp::spin runs the node.
Playing == pc = "spinning"

\* The loading loop is over.
LoadFinished ==
    \/ pc = "ctor_load" /\ i = Len(timestamp_cache_)
    \/ pc \in {"spinning", "crashed"}

\* Source k (0-based) decodes to at least one point.
Decodable(k) == loadPointCloudDataFromBin(in_files[k + 1]) >= 1

\* The decodable sources among the first n, in their original order.
RECURSIVE Survivors(_)
Survivors(n) ==
    IF n = 0 THEN <<>>
    ELSE IF Decodable(n - 1)
         THEN Append(Survivors(n - 1), n - 1)
         ELSE Survivors(n - 1)

\* C1: with N >= 1 cached frames the k-th delivery (k = 0, 1, ...) is the
\* frame at position k mod N: 0, 1, ..., N-1, 0, 1, ... with nothing
\* skipped, repeated or reordered.
C1_DeliveryOrder ==
    NumFrames >= 1 =>
        \A k \in 1..Len(delivered) :
            delivered[k] = point_cloud_cache_[((k - 1) % NumFrames) + 1]

\* C1 witness: three frames, and the fourth delivery (frame 0 again) is made.
C1_Witness ==
    /\ NumFrames = 3
    /\ Len(delivered) = 4
    /\ delivered[4] = point_cloud_cache_[1]

\* C2 as stated: while playing, the cursor is in [0, len) in every state,
\* the states between two firings included.
C2_Original ==
    (Playing /\ NumFrames >= 1) =>
        (current_index_ >= 0 /\ current_index_ < NumFrames)

C2_Range ==
    (Playing /\ NumFrames >= 1) =>
        (current_index_ >= 0 /\ current_index_ <= NumFrames)

C2_Step ==
    (NumFrames >= 1 /\ Len(delivered') = Len(delivered) + 1) =>
        LET position == IF current_index_ = NumFrames THEN 0 ELSE current_index_
        IN  /\ position < NumFrames
            /\ delivered'[Len(delivered')] = point_cloud_cache_[position + 1]
            /\ current_index_' = position + 1

\* C2 amended: for a non-empty sequence the cursor is in [0, len] in every
\* state of the playback; each emission delivers at a position in [0, len)
\* and leaves the cursor one past that position, so the cursor holds len
\* from the emission of the last frame until the next firing resets it.
C2_CursorRange == []C2_Range /\ [][C2_Step]_vars

\* C2 witness: the cursor holds len between two firings, after a wrap.
C2_Witness ==
    /\ Playing
    /\ NumFrames >= 2
    /\ current_index_ = NumFrames
    /\ Len(delivered) = 2 * NumFrames

\* C3: after construction the timestamp list is as long as the frame list
\* and its i-th entry is the capture timestamp of the i-th cached frame.
C3_TimestampsPaired ==
    Playing =>
        /\ Len(timestamp_cache_) = NumFrames
        /\ \A k \in 1..NumFrames :
              /\ k <= Len(timestamp_cache_)
              /\ timestamp_cache_[k] =
                     in_timestamps[point_cloud_cache_[k].src + 1]

\* The input of C4: timestamps [1000, 1500, 5000], three decodable sources.
C4_Input ==
    /\ paths_exist
    /\ in_timestamps = <<1000, 1500, 5000>>
    /\ Len(in_files) = 3
    /\ \A k \in 0..2 : Decodable(k)

C4_Cycle == <<500, 3500, BOUNDARY_SLEEP_NS>>

\* C4 as stated: from the start on, the installed waits are 500, 3500,
\* fallback, 500, 3500, fallback, ...
C4_Original ==
    C4_Input =>
        \A k \in 1..Len(waits) : waits[k] = C4_Cycle[((k - 1) % 3) + 1]

\* C4 amended: the timer armed by the constructor waits 500, and the waits
\* installed by the firings after it are 500, 3500, fallback, repeating.
C4_Waits ==
    C4_Input =>
        \A k \in 1..Len(waits) :
            waits[k] = IF k = 1 THEN 500 ELSE C4_Cycle[((k - 2) % 3) + 1]

\* C4 witness: the constructor's timer and seven firings, two full cycles.
C4_Witness ==
    /\ C4_Input
    /\ Len(waits) = 8
    /\ Len(delivered) = 7

\* C5: with an empty frame list the start fails with an error, no timer is
\* armed and no element of either list is ever indexed.
C5_EmptyFailsFast ==
    (NumFrames = 0 /\ pc \notin {"ctor_start", "ctor_load"}) =>
        /\ pc = "failed"
        /\ timers = {}
        /\ reads = {}

\* C6: with one timestamp and one frame every wait, the first included, is
\* the boundary fallback and only timestamp index 0 is read.
C6_SingleFrameWaits ==
    (Len(in_timestamps) = 1 /\ NumFrames = 1 /\ pc \in {"spinning", "crashed"}) =>
        /\ pc = "spinning"
        /\ \A k \in 1..Len(waits) : waits[k] = BOUNDARY_SLEEP_NS
        /\ \A r \in reads : r[1] = "timestamp_cache_" => r[2] = 0

\* C7: when the number of timestamps differs from the number of data
\* sources construction fails, before any source is decoded: no frame is
\* cached, no timer is armed, nothing is delivered.
C7_CountMismatchFails ==
    (Len(in_timestamps) # Len(in_files) /\ pc # "ctor_start") =>
        /\ pc = "failed"
        /\ paths_exist => error = "CountMismatch"
        /\ decoded = 0
        /\ point_cloud_cache_ = <<>>
        /\ timer_ = NoTimer
        /\ timers = {}
        /\ delivered = <<>>

\* C7 witness: construction failed on the counts, with decodable sources.
C7_Witness ==
    /\ pc = "failed"
    /\ error = "CountMismatch"
    /\ Len(in_files) > Len(in_timestamps)
    /\ \E k \in 0..(Len(in_files) - 1) : Decodable(k)

\* C8: for equal-length inputs the cached frames are exactly the sources
\* that decoded to at least one point, in their original order; a skipped
\* source does not fail construction and is never delivered.
C8_CacheIsSurvivors ==
    LoadFinished =>
        /\ error = "none"
        /\ NumFrames <= Len(in_files)
        /\ [k \in 1..NumFrames |-> point_cloud_cache_[k].src]
               = Survivors(Len(in_files))
        /\ \A k \in 1..NumFrames : point_cloud_cache_[k].width >= 1
        /\ \A k \in 1..Len(delivered) :
              delivered[k] # GarbageFrame => Decodable(delivered[k].src)

\* C8 witness: an unreadable and an empty source were skipped and the
\* surviving frames are being delivered.
C8_Witness ==
    /\ Playing
    /\ \E a, b \in 1..Len(in_files) :
          in_files[a] = Unreadable /\ in_files[b] = 0
    /\ NumFrames >= 1
    /\ Len(delivered) > NumFrames

\* C10 (state part): at most one timer is alive, the one timer_ owns.
C10_OneTimer ==
    /\ Cardinality(timers) <= 1
    /\ \A t \in timers : t.id = timer_

\* C10 (step part): a firing that re-arms leaves exactly the new timer.
C10_Replaced ==
    (Len(delivered') = Len(delivered) + 1 /\ pc' = "spinning") =>
        /\ timers' \cap timers = {}
        /\ Cardinality(timers') = 1
        /\ timer_' # timer_

\* C10: at every moment at most one timer is pending; each firing replaces
\* the single handle by the newly armed timer, so the timer that fired
\* cannot fire again.
C10_SinglePendingTimer == []C10_OneTimer /\ [][C10_Replaced]_vars

\* C10 witness: several firings have re-armed and one timer is pending.
C10_Witness ==
    /\ Playing
    /\ Len(delivered) >= 3
    /\ Cardinality(timers) = 1
    /\ timer_ = 4

NumTimestamps == Len(timestamp_cache_)

\* C11: for a non-empty sequence with non-negative waits playback never
\* completes: once construction is over there is no state in which the
\* scheduler is not running with a pending timer.
C11_NeverCompletes ==
    (/\ NumFrames >= 1
     /\ pc \notin {"ctor_start", "ctor_load", "failed"}
     /\ \A k \in 1..Len(waits) : waits[k] >= 0) =>
        /\ pc = "spinning"
        /\ Cardinality(timers) = 1

\* C12: the firing that delivers the frame at position c installs the wait
\* timestamp[c+1] - timestamp[c], unclamped, when c is not the last position
\* of the sequence, and the 100 ms fallback exactly when c is the last one.
C12_WaitPerPosition ==
    NumFrames >= 1 =>
        \A k \in 1..Len(delivered) :
            k + 1 <= Len(waits) =>
                LET c == (k - 1) % NumFrames
                IN  waits[k + 1] =
                        IF c # NumFrames - 1
                        THEN timestamp_cache_[c + 2] - timestamp_cache_[c + 1]
                        ELSE BOUNDARY_SLEEP_NS

\* C13: a file of n complete floats decodes to floor(n / 4) points; a file
\* of 1 to 3 floats decodes to the empty list and is skipped.
C13_FloorQuadruples ==
    LoadFinished =>
        /\ \A k \in 1..NumFrames :
              point_cloud_cache_[k].width
                  = in_files[point_cloud_cache_[k].src + 1] \div 4
        /\ \A k \in 1..NumFrames :
              in_files[point_cloud_cache_[k].src + 1] \notin 1..3

C14_Step ==
    (pc = "spinning" /\ (pc' # pc \/ delivered' # delivered)) =>
        LET index == IF current_index_ = NumFrames THEN 0 ELSE current_index_
        IN  /\ index < NumFrames
            /\ delivered' = Append(delivered, point_cloud_cache_[index + 1])
            /\ Len(waits') = Len(waits) + 1
            /\ current_index_' = index + 1
            /\ pc' = "spinning"

\* C14: every firing checks the wraparound, then delivers exactly one
\* frame, at a valid position of the frame list, then computes the wait,
\* advances the cursor and re-arms.
C14_FiringSteps == [][C14_Step]_vars

C15_Frozen ==
    pc = "spinning" =>
        /\ point_cloud_cache_' = point_cloud_cache_
        /\ timestamp_cache_' = timestamp_cache_

\* C15: a firing leaves the cached frame list and the timestamp list as
\* they were when construction finished, whatever the number of firings.
C15_ListsUnchanged ==
    [](Playing => timestamp_cache_ = in_timestamps) /\ [][C15_Frozen]_vars

\* C15 witness: two frames of three sources, delivered through two wraps.
C15_Witness ==
    /\ Playing
    /\ Len(in_files) = 3
    /\ NumFrames = 2
    /\ Len(delivered) = 5

\* C16: with at least one cached frame every index a firing uses is in
\* bounds, also after skips: the delivered index is below the number of
\* frames and every timestamp index read is below the number of timestamps.
C16_IndicesInBounds ==
    NumFrames >= 1 =>
        \A r \in reads :
            r[3] = "callback" =>
                /\ r[2] >= 0
                /\ r[1] = "point_cloud_cache_" => r[2] < NumFrames
                /\ r[1] = "timestamp_cache_" => r[2] < NumTimestamps

\* C16 witness: sources were skipped and a firing at the last frame
\* position has read timestamp_cache_[cursor + 1].
C16_Witness ==
    /\ Playing
    /\ NumFrames >= 1
    /\ NumFrames < NumTimestamps
    /\ Len(delivered) > NumFrames
    /\ <<"timestamp_cache_", NumFrames, "callback">> \in reads

\* C17: construction delivers nothing and arms exactly one timer, of
\* duration timestamp[1] - timestamp[0]; the first delivery is made by the
\* firing of that timer, it is frame 0, and the wait that firing installs
\* is timestamp[1] - timestamp[0] again.
C17_FirstTimer ==
    /\ pc \in {"ctor_start", "ctor_load", "failed"} =>
          (delivered = <<>> /\ timers = {} /\ waits = <<>>)
    /\ (Playing /\ NumTimestamps >= 2 /\ NumFrames >= 1) =>
          /\ Len(waits) = Len(delivered) + 1
          /\ waits[1] = timestamp_cache_[2] - timestamp_cache_[1]
          /\ Len(delivered) = 0 => Cardinality(timers) = 1
          /\ Len(delivered) >= 1 =>
                /\ delivered[1] = point_cloud_cache_[1]
                /\ waits[2] = timestamp_cache_[2] - timestamp_cache_[1]

\* C17 witness: the first timer has fired once, after a non-zero delay.
C17_Witness ==
    /\ Playing
    /\ NumFrames >= 2
    /\ Len(delivered) = 1
    /\ waits = <<timestamp_cache_[2] - timestamp_cache_[1],
                 timestamp_cache_[2] - timestamp_cache_[1]>>
    /\ timestamp_cache_[2] # timestamp_cache_[1]

\* C18: the header stamp of a frame splits the capture timestamp of its
\* source as sec and nanosec with sec * 10^9 + nanosec equal to the
\* timestamp and 0 <= nanosec < 10^9, for every non-negative timestamp
\* whose whole seconds fit in a signed 32-bit integer.
C18_StampSplitsTimestamp ==
    \A k \in 1..Len(stamps) :
        /\ Add(Mul(stamps[k].sec, FromInt(1000000000)), stamps[k].nanosec)
               = stamp_ts
        /\ Less(stamps[k].nanosec, FromInt(1000000000))

====
